---- MODULE Spec2Model ----
(***************************************************************************)
(* A model of build.py, the cross-compilation driver of pbuild.            *)
(*                                                                         *)
(* A path is a record [dir, name]: dir is the sequence of directory        *)
(* components and name the sequence of dot-separated parts of the file     *)
(* name, so "src/a/x.cpp" is [dir |-> <<"src","a">>, name |-> <<"x","cpp">>]*)
(* and appending ".o" to a basename appends the part "o".                  *)
(* An argument of a command line is a record [str, path]: a plain string   *)
(* (path = NoPath) or a path (str = "").                                   *)
(* host is the os.name of the interpreter: glob matches names through      *)
(* os.path.normcase, which folds case on "nt" and not on "posix".          *)
(***************************************************************************)
EXTENDS Naturals, Sequences, FiniteSets, TLC

VARIABLES host, tree, dirs, files, command, pc, plat, source_files,
          object_files, idx, log, exitCode, history

vars == <<host, tree, dirs, files, command, pc, plat, source_files,
          object_files, idx, log, exitCode, history>>

(* ------------------------------ bounds --------------------------------- *)

\* largest number of files in the source directory
MaxFiles == 3

(* ---------------------------- sequences -------------------------------- *)

Range(s) == {s[i] : i \in 1..Len(s)}

Last(s) == s[Len(s)]

IsPrefix(s, t) == Len(s) <= Len(t) /\ SubSeq(t, 1, Len(s)) = s

\* all orders in which the elements of a finite set can be listed
RECURSIVE Perms(_)
Perms(S) == IF S = {} THEN {<<>>}
            ELSE UNION {{<<e>> \o p : p \in Perms(S \ {e})} : e \in S}

(* ------------------------- module constants ---------------------------- *)

FNAME_OUT == "main"
SRC_DIR == <<"src">>
BUILD_DIR == <<"build">>
MACOS_BUILD_DIR == BUILD_DIR \o <<"macos">>
WINDOWS_BUILD_DIR == BUILD_DIR \o <<"windows">>
LINUX_BUILD_DIR == BUILD_DIR \o <<"linux">>

MACOS_CXX == "clang++"
MACOS_C == "clang"
MACOS_ARCH_FLAGS == <<"-arch", "arm64", "-arch", "x86_64">>

WINDOWS_TOOLCHAIN_PREFIX == "/opt/homebrew/bin/x86_64-w64-mingw32"
WINDOWS_CXX == WINDOWS_TOOLCHAIN_PREFIX \o "-g++"
WINDOWS_C == WINDOWS_TOOLCHAIN_PREFIX \o "-gcc"

LINUX_TOOLCHAIN_PREFIX == "/opt/homebrew/bin"
LINUX_CXX == LINUX_TOOLCHAIN_PREFIX \o "/x86_64-unknown-linux-gnu-g++"
LINUX_C == LINUX_TOOLCHAIN_PREFIX \o "/x86_64-unknown-linux-gnu-gcc"

COMMON_CXX_FLAGS == <<"-std=c++17", "-Wall", "-Wextra">>
COMMON_C_FLAGS == <<"-std=c11", "-Wall", "-Wextra">>

(* ------------------------- paths and arguments ------------------------- *)

NoPath == [dir |-> <<>>, name |-> <<>>]

Str(s) == [str |-> s, path |-> NoPath]

PathArg(p) == [str |-> "", path |-> p]

Strs(ss) == [i \in 1..Len(ss) |-> Str(ss[i])]

PathArgs(ps) == [i \in 1..Len(ps) |-> PathArg(ps[i])]

\* os.path.join(d, n) for a directory d and a file name n
Join(d, n) == [dir |-> d, name |-> n]

\* os.path.basename
basename(p) == p.name

\* str.endswith("." + ext)
endswith(p, ext) == Len(p.name) >= 2 /\ Last(p.name) = ext

\* a list comprehension [arg for arg in cmd if arg]: drops empty strings
NonEmptyArg(a) == a.str # "" \/ a.path # NoPath

DropEmpty(cmd) == SelectSeq(cmd, NonEmptyArg)

(* --------------------------- the file system --------------------------- *)

\* the source directory and a subdirectory of it
SourceDirs == {SRC_DIR, SRC_DIR \o <<"a">>}

Stems == {"x"}

Extensions == {"c", "cpp", "CPP", "h"}

Hosts == {"posix", "nt"}

\* str.lower on the parts of a file name that occur
lower(s) == CASE s = "CPP" -> "cpp"
              [] OTHER -> s

\* os.path.normcase on a part of a file name
normcase(h, s) == IF h = "nt" THEN lower(s) ELSE s

\* the files a source directory may hold
CandidateFiles == {Join(d, <<s, e>>) : d \in SourceDirs, s \in Stems, e \in Extensions}

\* a directory of an "nt" host holds no two names that differ in case only
Coexist(h, t) ==
    \A p, q \in t :
        (p.dir = q.dir /\ [i \in 1..Len(p.name) |-> normcase(h, p.name[i])]
                          = [i \in 1..Len(q.name) |-> normcase(h, q.name[i])]) => p = q

Trees(h) == {t \in SUBSET CandidateFiles : Cardinality(t) <= MaxFiles /\ Coexist(h, t)}

\* os.makedirs(path, exist_ok=True): the directory and all its parents
ensure_dir(ds, path) == ds \cup {SubSeq(path, 1, n) : n \in 1..Len(path)}

\* os.path.exists(BUILD_DIR)
exists(ds, path) == path \in ds

Under(root, d) == IsPrefix(root, d)

\* rmtree that empties the directory and leaves the directory itself
rmtree_dirs_keep_root(ds, root) == {d \in ds : ~Under(root, d) \/ d = root}

\* shutil.rmtree(root), on the directories and on the files
rmtree_dirs(ds, root) == {d \in ds : ~Under(root, d)}

rmtree_files(fs, root) == [p \in {q \in DOMAIN fs : ~Under(root, q.dir)} |-> fs[p]]

\* glob.glob(os.path.join(base_dir, "**", "*." + ext), recursive=True):
\* the files below base_dir whose name, passed through normcase, ends in
\* "." + ext; hidden files are left out
glob(h, t, base_dir, ext) ==
    {p \in t : /\ Under(base_dir, p.dir)
               /\ Len(p.name) >= 2
               /\ normcase(h, Last(p.name)) = normcase(h, ext)
               /\ p.name[1] # ""}

\* the lists get_source_files may return: the .cpp files in the order the
\* file system lists them, followed by the .c files
get_source_files(h, t, base_dir) ==
    {cpp \o c : cpp \in Perms(glob(h, t, base_dir, "cpp")),
                c \in Perms(glob(h, t, base_dir, "c"))}

(* ------------------------- toolchain tables ---------------------------- *)

\* build_all with the first two calls exchanged
build_all_order_swapped == <<"windows", "macos", "linux">>

\* the pipelines in the order build_all calls them
build_all_order == <<"macos", "windows", "linux">>

BuildDirOf(p) == CASE p = "macos" -> MACOS_BUILD_DIR
                   [] p = "windows" -> WINDOWS_BUILD_DIR
                   [] p = "linux" -> LINUX_BUILD_DIR

CxxOf(p) == CASE p = "macos" -> MACOS_CXX
              [] p = "windows" -> WINDOWS_CXX
              [] p = "linux" -> LINUX_CXX

CcOf(p) == CASE p = "macos" -> MACOS_C
             [] p = "windows" -> WINDOWS_C
             [] p = "linux" -> LINUX_C

\* flags a pipeline adds to a compile command after the common flags
CompileExtraOf(p) == IF p = "macos" THEN MACOS_ARCH_FLAGS ELSE <<>>

\* flags a pipeline adds to its link command after the object files
LinkExtraOf(p) == CASE p = "macos" -> MACOS_ARCH_FLAGS
                    [] p = "windows" -> <<"-static-libstdc++", "-static-libgcc">>
                    [] p = "linux" -> COMMON_CXX_FLAGS

\* the name of the executable: FNAME_OUT, with ".exe" added for Windows
ExeNameOf(p) == IF p = "windows" THEN <<FNAME_OUT, "exe">> ELSE <<FNAME_OUT>>

output_executable(p) == Join(BuildDirOf(p), ExeNameOf(p))

\* obj_file = os.path.join(<platform build dir>, base_name + ".o")
obj_file_of(p, src_file) == Join(BuildDirOf(p), basename(src_file) \o <<"o">>)

\* the selection with the two compilers exchanged
Selection_swapped(p, src_file) ==
    IF endswith(src_file, "cpp")
    THEN [known |-> TRUE, compiler |-> CcOf(p), flags |-> COMMON_CXX_FLAGS]
    ELSE IF endswith(src_file, "c")
         THEN [known |-> TRUE, compiler |-> CxxOf(p), flags |-> COMMON_C_FLAGS]
         ELSE [known |-> FALSE, compiler |-> "", flags |-> <<>>]

\* the compiler and flags chosen by extension; none for another extension
Selection(p, src_file) ==
    IF endswith(src_file, "cpp")
    THEN [known |-> TRUE, compiler |-> CxxOf(p), flags |-> COMMON_CXX_FLAGS]
    ELSE IF endswith(src_file, "c")
         THEN [known |-> TRUE, compiler |-> CcOf(p), flags |-> COMMON_C_FLAGS]
         ELSE [known |-> FALSE, compiler |-> "", flags |-> <<>>]

compile_command(p, compiler, flags, src_file, obj_file) ==
    DropEmpty(<<Str(compiler)>> \o Strs(flags) \o Strs(CompileExtraOf(p))
              \o <<Str("-c"), PathArg(src_file), Str("-o"), PathArg(obj_file)>>)

link_command(p, objs) ==
    DropEmpty(<<Str(CxxOf(p))>> \o PathArgs(objs) \o Strs(LinkExtraOf(p))
              \o <<Str("-o"), PathArg(output_executable(p))>>)

(* ----------------------- the external commands ------------------------- *)

\* positions of the output path (the argument after "-o") in a command line
OutputIdx(argv) == {i \in 2..Len(argv) : argv[i - 1].str = "-o" /\ argv[i].path # NoPath}

OutputOf(argv) == argv[CHOOSE i \in OutputIdx(argv) : TRUE].path

\* the input paths of a command line, in order
InputsOf(argv) ==
    LET isInput(i) == argv[i].path # NoPath /\ i \notin OutputIdx(argv)
        F[i \in 0..Len(argv)] ==
            IF i = 0 THEN <<>>
            ELSE IF isInput(i) THEN Append(F[i - 1], argv[i].path) ELSE F[i - 1]
    IN F[Len(argv)]

HasFlag(argv, s) == \E i \in 1..Len(argv) : argv[i].str = s

\* what a compiler or linker that exits with 0 writes to its output path
Product(argv) == [kind |-> IF HasFlag(argv, "-c") THEN "obj" ELSE "exe",
                  by |-> argv[1].str,
                  inputs |-> InputsOf(argv)]

\* the ways the child process may end: exit code 0, a nonzero exit code,
\* or no such executable; it can exit with 0 only if its inputs exist
Outcomes(argv, t, fs) ==
    IF OutputIdx(argv) # {} /\ Range(InputsOf(argv)) \subseteq (t \cup DOMAIN fs)
    THEN {"ok", "nonzero", "notfound"}
    ELSE {"nonzero", "notfound"}

\* the files after subprocess.run(command): the output is written on exit 0
subprocess_run(fs, argv, out) ==
    IF out = "ok"
    THEN [p \in DOMAIN fs \cup {OutputOf(argv)} |->
             IF p = OutputOf(argv) THEN Product(argv) ELSE fs[p]]
    ELSE fs

\* a failure handler that removes what is under the output directory
except_files_rollback(fs) == rmtree_files(fs, BUILD_DIR)

\* the files when run_command has handled the failure of a command
except_files(fs) == fs

\* run_command without check=True: a nonzero exit code raises nothing
run_command_unchecked(out) ==
    IF out \in {"ok", "nonzero"} THEN [exits |-> FALSE, ret |-> TRUE, code |-> 0]
    ELSE [exits |-> TRUE, ret |-> FALSE, code |-> 1]

\* run_command that reports a failure by returning False
run_command_returns_false(out) ==
    IF out = "ok" THEN [exits |-> FALSE, ret |-> TRUE, code |-> 0]
    ELSE [exits |-> FALSE, ret |-> FALSE, code |-> 0]

\* run_command: returns True after exit code 0, otherwise ends the process
\* with sys.exit(1)
run_command(out) ==
    IF out = "ok" THEN [exits |-> FALSE, ret |-> TRUE, code |-> 0]
    ELSE [exits |-> TRUE, ret |-> FALSE, code |-> 1]

(* ------------------------------ the log -------------------------------- *)

\* What the current run has done so far, in order: "begin" and "end" of a
\* pipeline, the "nosrc" and "skip" warnings, and every command handed to
\* run_command ("compile", "link") with the way it ended.
Event(e, p, src_file, argv, out) ==
    [ev |-> e, plat |-> p, src |-> src_file, argv |-> argv, out |-> out]

Mark(e, p) == Event(e, p, NoPath, <<>>, "none")

(* ------------------------------ the state ------------------------------ *)

TypeOK ==
    /\ host \in Hosts
    /\ tree \in Trees(host)
    /\ command \in {"none", "build", "clean"}
    /\ pc \in {"idle", "pipeline", "compile", "link", "finish"}
    /\ plat \in 1..Len(build_all_order)
    /\ exitCode \in {0, 1}
    /\ idx \in 1..(MaxFiles + 1)

\* a source directory, no output directory, and no command run yet
Init ==
    /\ host \in Hosts
    /\ tree \in Trees(host)
    /\ dirs = {SRC_DIR} \cup {p.dir : p \in tree}
    /\ files = <<>>
    /\ command = "none"
    /\ pc = "idle"
    /\ plat = 1
    /\ source_files = <<>>
    /\ object_files = <<>>
    /\ idx = 1
    /\ log = <<>>
    /\ exitCode = 0
    /\ history = <<>>

\* the commands given before the current one, from the last build on; of
\* the cleans that follow one another only the first is kept
Remember(h, c) ==
    IF c = "none" THEN h
    ELSE IF c = "build" THEN <<"build">>
    ELSE IF h # <<>> /\ Last(h) = "clean" THEN h
    ELSE Append(h, c)

\* the process is started with the argument c
Invoke(c) ==
    /\ pc = "idle"
    /\ command' = c
    /\ history' = Remember(history, command)

\* sys.exit(code), or the end of the main block (code 0)
Exit(code) ==
    /\ pc' = "idle"
    /\ exitCode' = code
    /\ plat' = 1
    /\ source_files' = <<>>
    /\ object_files' = <<>>
    /\ idx' = 1

\* a pipeline that ends the process where it should return
Return_exit == Exit(0)

\* a pipeline returns: build_all calls the next one, or prints its last lines
Return ==
    /\ source_files' = <<>>
    /\ object_files' = <<>>
    /\ idx' = 1
    /\ UNCHANGED exitCode
    /\ IF plat < Len(build_all_order)
       THEN pc' = "pipeline" /\ plat' = plat + 1
       ELSE pc' = "finish" /\ UNCHANGED plat

(* ----------------------------- the actions ----------------------------- *)

\* "build": build_all up to its first pipeline
StartBuild ==
    /\ Invoke("build")
    /\ dirs' = ensure_dir(dirs, BUILD_DIR)
    /\ log' = <<>>
    /\ pc' = "pipeline"
    /\ plat' = 1
    /\ UNCHANGED <<host, tree, files, source_files, object_files, idx, exitCode>>

\* build_macos, build_windows, build_linux up to the compile loop
BeginPipeline ==
    /\ pc = "pipeline"
    /\ LET p == build_all_order[plat] IN
       /\ dirs' = ensure_dir(dirs, BuildDirOf(p))
       /\ \E sf \in get_source_files(host, tree, SRC_DIR) :
            IF sf = <<>>
            THEN /\ log' = log \o <<Mark("begin", p), Mark("nosrc", p), Mark("end", p)>>
                 /\ Return
            ELSE /\ log' = Append(log, Mark("begin", p))
                 /\ source_files' = sf
                 /\ object_files' = <<>>
                 /\ idx' = 1
                 /\ pc' = "compile"
                 /\ UNCHANGED <<plat, exitCode>>
    /\ UNCHANGED <<host, tree, files, command, history>>

\* the loop goes on with the next source file, or ends
Continue ==
    /\ UNCHANGED <<source_files, plat, exitCode>>
    /\ IF idx < Len(source_files)
       THEN idx' = idx + 1 /\ pc' = "compile"
       ELSE idx' = 1 /\ pc' = "link"

\* one iteration of the compile loop
CompileStep ==
    /\ pc = "compile"
    /\ LET p == build_all_order[plat]
           src_file == source_files[idx]
           obj_file == obj_file_of(p, src_file)
           sel == Selection(p, src_file)
           argv == compile_command(p, sel.compiler, sel.flags, src_file, obj_file)
       IN IF ~sel.known
          THEN /\ object_files' = Append(object_files, obj_file)
               /\ log' = Append(log, Event("skip", p, src_file, <<>>, "none"))
               /\ Continue
               /\ UNCHANGED files
          ELSE \E out \in Outcomes(argv, tree, files) :
                 LET r == run_command(out) IN
                 /\ log' = log \o <<Event("compile", p, src_file, argv, out)>>
                            \o (IF ~r.exits /\ ~r.ret THEN <<Mark("end", p)>> ELSE <<>>)
                 /\ files' = IF out = "ok" THEN subprocess_run(files, argv, out)
                             ELSE except_files(subprocess_run(files, argv, out))
                 /\ IF r.exits THEN Exit(r.code)
                    ELSE IF ~r.ret THEN Return
                    ELSE /\ object_files' = Append(object_files, obj_file)
                         /\ Continue
    /\ UNCHANGED <<host, tree, dirs, command, history>>

\* the link command of a pipeline and its return
LinkStep ==
    /\ pc = "link"
    /\ LET p == build_all_order[plat]
           argv == link_command(p, object_files)
       IN \E out \in Outcomes(argv, tree, files) :
            LET r == run_command(out) IN
            /\ log' = log \o <<Event("link", p, NoPath, argv, out)>>
                       \o (IF r.exits THEN <<>> ELSE <<Mark("end", p)>>)
            /\ files' = IF out = "ok" THEN subprocess_run(files, argv, out)
                        ELSE except_files(subprocess_run(files, argv, out))
            /\ IF r.exits THEN Exit(r.code) ELSE Return
    /\ UNCHANGED <<host, tree, dirs, command, history>>

\* the last lines of build_all; the process ends with exit code 0
FinishBuild ==
    /\ pc = "finish"
    /\ Exit(0)
    /\ UNCHANGED <<host, tree, dirs, files, command, log, history>>

\* "clean": clean_all; the process ends with exit code 0
Clean ==
    /\ Invoke("clean")
    /\ IF exists(dirs, BUILD_DIR)
       THEN /\ dirs' = rmtree_dirs(dirs, BUILD_DIR)
            /\ files' = rmtree_files(files, BUILD_DIR)
       ELSE UNCHANGED <<dirs, files>>
    /\ log' = <<>>
    /\ Exit(0)
    /\ UNCHANGED <<host, tree>>

Next ==
    \/ StartBuild
    \/ BeginPipeline
    \/ CompileStep
    \/ LinkStep
    \/ FinishBuild
    \/ Clean

Spec == Init /\ [][Next]_vars

(* --------------------- vocabulary of the properties -------------------- *)

Platforms == {"macos", "windows", "linux"}

\* the files get_source_files finds
Discovered == glob(host, tree, SRC_DIR, "cpp") \cup glob(host, tree, SRC_DIR, "c")

IsCommand(e) == e.ev \in {"compile", "link"}

Failed(e) == IsCommand(e) /\ e.out # "ok"

Events == Range(log)

\* a build run has ended
BuildEnded == command = "build" /\ pc = "idle"

\* a build run has ended and every command it ran exited with 0
BuildSucceeded == BuildEnded /\ \A e \in Events : ~Failed(e)

\* the object files in the build directory of a platform
ObjectsIn(p) == {q \in DOMAIN files : q.dir = BuildDirOf(p) /\ files[q].kind = "obj"}

\* nothing of the output tree is on disk
NoOutputTree ==
    /\ \A d \in dirs : ~IsPrefix(<<"build">>, d)
    /\ \A q \in DOMAIN files : ~IsPrefix(<<"build">>, q.dir)

NoDuplicates(sq) == \A i, j \in 1..Len(sq) : sq[i] = sq[j] => i = j

\* the object files the successful compile commands of a platform wrote
CompiledThisRun(p) ==
    {OutputOf(e.argv) : e \in {c \in Events : c.ev = "compile" /\ c.plat = p /\ c.out = "ok"}}

(* ------------------------------- claims -------------------------------- *)

\* C1: after a build in which every command succeeded, each platform
\* directory holds exactly one object file per discovered source file, each
\* named <source basename>.o, so as many object files as discovered files.
C1_OneObjectPerSource ==
    BuildSucceeded =>
        \A p \in Platforms :
            /\ \A f \in Discovered :
                 Join(<<"build", p>>, f.name \o <<"o">>) \in ObjectsIn(p)
            /\ Cardinality(ObjectsIn(p)) = Cardinality(Discovered)

\* C2: once a compile command of a platform has exited nonzero, no link
\* command of that platform is in the run and the process has ended with
\* exit code 1.
C2_CompileFailureStopsLink ==
    \A e \in Events :
        (e.ev = "compile" /\ e.out = "nonzero") =>
            /\ \A l \in Events : ~(l.ev = "link" /\ l.plat = e.plat)
            /\ pc = "idle"
            /\ exitCode = 1

C2_Witness ==
    /\ BuildEnded
    /\ \E e \in Events : e.ev = "compile" /\ e.out = "nonzero" /\ e.plat = "windows"
    /\ \E e \in Events : e.ev = "compile" /\ e.out = "ok" /\ e.plat = "windows"
    /\ \E l \in Events : l.ev = "link" /\ l.plat = "macos" /\ l.out = "ok"

\* C3: a discovered file whose name ends neither in .cpp nor in .c gets no
\* compile command, and its object path is in no link command of the run.
C3_SkippedNotLinked ==
    \A e \in Events :
        e.ev = "skip" =>
            /\ \A c \in Events :
                 IsCommand(c) => \A i \in 1..Len(c.argv) : c.argv[i].path # e.src
            /\ \A l \in Events :
                 (l.ev = "link" /\ l.plat = e.plat) =>
                     \A i \in 1..Len(l.argv) :
                         l.argv[i].path # Join(<<"build", e.plat>>, e.src.name \o <<"o">>)

\* C8: the object files a link command is given are exactly the object
\* files the successful compile commands of its platform wrote in this run,
\* each listed once.
C8_LinkListMatchesCompiled ==
    \A l \in Events :
        l.ev = "link" =>
            /\ Range(InputsOf(l.argv)) = CompiledThisRun(l.plat)
            /\ NoDuplicates(InputsOf(l.argv))

\* C4: clean leaves nothing of the output tree and ends with exit code 0,
\* whatever was built before; on a tree that is already clean it changes
\* nothing on disk.
C4_CleanRemovesTree ==
    [][(pc = "idle" /\ pc' = "idle" /\ command' = "clean") =>
          /\ NoOutputTree'
          /\ exitCode' = 0
          /\ (NoOutputTree => (dirs' = dirs /\ files' = files))]_vars

C4_Witness ==
    /\ command = "clean"
    /\ pc = "idle"
    /\ history = <<"build", "clean">>
    /\ Discovered # {}
    /\ NoOutputTree
    /\ exitCode = 0

NoSourceWarnings == SelectSeq(log, LAMBDA e : e.ev = "nosrc")

\* C5: a build of a source directory in which no source file is found runs
\* no command and writes no file; when it has ended it has warned once for
\* each of macOS, Windows and Linux and the exit code is 0.
C5_NoSources ==
    (command = "build" /\ Discovered = {}) =>
        /\ \A e \in Events : ~IsCommand(e) /\ e.ev # "skip"
        /\ DOMAIN files = {}
        /\ Len(NoSourceWarnings) <= 3
        /\ pc = "idle" =>
             /\ exitCode = 0
             /\ [i \in 1..Len(NoSourceWarnings) |-> NoSourceWarnings[i].plat]
                   = <<"macos", "windows", "linux">>

C5_Witness ==
    /\ BuildEnded
    /\ Discovered = {}
    /\ tree # {}
    /\ Len(NoSourceWarnings) = 3

Rank(p) == CASE p = "macos" -> 1
             [] p = "windows" -> 2
             [] p = "linux" -> 3

\* C6: the pipelines begin in the order macOS, Windows, Linux, each one only
\* when the one before it has ended, every command is run between the begin
\* and the end of its own pipeline, and after a pipeline that found no
\* sources the following pipelines still begin.
C6_PipelineOrder ==
    /\ \A i, j \in 1..Len(log) : i < j => Rank(log[i].plat) <= Rank(log[j].plat)
    /\ \A j \in 1..Len(log) :
         log[j].ev = "begin" =>
            IF Rank(log[j].plat) = 1 THEN j = 1
            ELSE /\ j > 1
                 /\ log[j - 1].ev = "end"
                 /\ Rank(log[j - 1].plat) + 1 = Rank(log[j].plat)
    /\ \A j \in 1..Len(log) :
         IsCommand(log[j]) =>
            /\ \E i \in 1..(j - 1) : log[i].ev = "begin" /\ log[i].plat = log[j].plat
            /\ \A i \in 1..(j - 1) : ~(log[i].ev = "end" /\ log[i].plat = log[j].plat)
    /\ (BuildEnded /\ \E e \in Events : e.ev = "nosrc") =>
         \A p \in Platforms : \E e \in Events : e.ev = "begin" /\ e.plat = p

C6_Witness ==
    /\ BuildSucceeded
    /\ \A p \in Platforms : \E e \in Events : e.ev = "link" /\ e.plat = p
    /\ \E e \in Events : e.ev = "compile" /\ e.plat = "linux"

\* C7: a command that exits nonzero or whose executable is missing is the
\* last thing the run does and the process has ended with exit code 1; a
\* build that ended without a failed command has exit code 0.
C7_FailureTerminates ==
    /\ \A i \in 1..Len(log) :
         Failed(log[i]) => (i = Len(log) /\ pc = "idle" /\ exitCode = 1)
    /\ BuildSucceeded => exitCode = 0

C7_Witness ==
    /\ BuildEnded
    /\ Len(log) > 0
    /\ Last(log).ev = "link"
    /\ Last(log).plat = "windows"
    /\ Last(log).out = "notfound"
    /\ exitCode = 1

\* every output of a successful command of the run is on disk as its last
\* writer left it, and the directories of the pipelines begun exist
WrittenOnDisk ==
    /\ \A i \in 1..Len(log) :
         (IsCommand(log[i]) /\ log[i].out = "ok") =>
            /\ OutputOf(log[i].argv) \in DOMAIN files
            /\ \/ files[OutputOf(log[i].argv)] = Product(log[i].argv)
               \/ \E j \in (i + 1)..Len(log) :
                     /\ IsCommand(log[j]) /\ log[j].out = "ok"
                     /\ OutputOf(log[j].argv) = OutputOf(log[i].argv)
    /\ \A e \in Events :
         e.ev = "begin" => (<<"build">> \in dirs /\ <<"build", e.plat>> \in dirs)

\* C9: the step on which a build aborts with exit code 1 changes no file
\* and no directory: all that the run had written is still there.
C9_NoRollback ==
    [][(pc # "idle" /\ pc' = "idle" /\ exitCode' = 1) =>
          (files' = files /\ dirs' = dirs /\ WrittenOnDisk')]_vars

C9_Witness ==
    /\ BuildEnded
    /\ exitCode = 1
    /\ \E e \in Events : e.ev = "link" /\ e.plat = "macos" /\ e.out = "ok"
    /\ \E e \in Events : e.ev = "compile" /\ e.plat = "windows" /\ e.out = "ok"
    /\ \E e \in Events : e.ev = "compile" /\ e.plat = "windows" /\ e.out = "nonzero"
    /\ [dir |-> <<"build", "macos">>, name |-> <<"main">>] \in DOMAIN files

\* C10: a compile command for a file ending in .cpp is the C++ compiler of
\* its platform with the common C++ flags, one for a file ending in .c is the
\* C compiler with the common C flags; each ends in -c, the source path, -o
\* and the object path; and a pipeline that links has compiled every
\* discovered .cpp and .c file.
C10_CompilerByExtension ==
    /\ \A e \in Events :
         e.ev = "compile" =>
            /\ e.src \in Discovered
            /\ Last(e.src.name) \in {"cpp", "c"}
            /\ Last(e.src.name) = "cpp" =>
                 /\ e.argv[1].str = CxxOf(e.plat)
                 /\ SubSeq(e.argv, 2, 4) = Strs(<<"-std=c++17", "-Wall", "-Wextra">>)
            /\ Last(e.src.name) = "c" =>
                 /\ e.argv[1].str = CcOf(e.plat)
                 /\ SubSeq(e.argv, 2, 4) = Strs(<<"-std=c11", "-Wall", "-Wextra">>)
            /\ SubSeq(e.argv, Len(e.argv) - 3, Len(e.argv))
                  = <<Str("-c"), PathArg(e.src), Str("-o"),
                      PathArg(Join(<<"build", e.plat>>, e.src.name \o <<"o">>))>>
    /\ \A l \in Events :
         l.ev = "link" =>
            \A f \in Discovered :
                Last(f.name) \in {"cpp", "c"} =>
                    \E e \in Events : e.ev = "compile" /\ e.plat = l.plat /\ e.src = f

C10_Witness ==
    /\ BuildSucceeded
    /\ \E e \in Events : e.ev = "compile" /\ e.plat = "linux" /\ Last(e.src.name) = "cpp"
    /\ \E e \in Events : e.ev = "compile" /\ e.plat = "linux" /\ Last(e.src.name) = "c"
    /\ \E e \in Events : e.ev = "compile" /\ e.plat = "macos" /\ Last(e.src.name) = "c"

====
